---- MODULE Spec2Model ----
(***************************************************************************)
(* BudgetBot ML service (ml_service/main.py): the /categorize, /forecast   *)
(* and /train handlers and the model store they share, as state machines.  *)
(*                                                                         *)
(* Representation                                                          *)
(*   - text is a TLA+ string; str.lower() and the `in` substring test are  *)
(*     computed character by character;                                    *)
(*   - confidences are hundredths (0.85 is 85);                            *)
(*   - amounts are whole currency units and averages are exact fractions   *)
(*     [n, d] with d > 0; NaN is the pandas/IEEE not-a-number, which every *)
(*     arithmetic operation propagates and every comparison rejects;       *)
(*   - a parsed date is its proleptic Gregorian ordinal (datetime's         *)
(*     toordinal), a date on the wire its ISO text "YYYY-MM-DD".           *)
(***************************************************************************)
EXTENDS Integers, Sequences, FiniteSets, TLC

VARIABLES
    catPc,       \* /categorize: "idle" | "called" | "done"
    catReq,      \* the Transaction posted to /categorize
    catRes,      \* the handler's return value
    fcPc,        \* /forecast: "idle" | "called" | "done"
    fcReq,       \* the ForecastRequest posted to /forecast
    fcToday,     \* datetime.now() as the handler read it, <<year, month, day>>
    fcRes,       \* the handler's return value, or the HTTPException it raised
    fcLocals,    \* the handler's locals when it returned a forecast
    files,       \* the models directory: path -> [exists, bytes]
    trPc,        \* /train, one call at a time: "idle" | "called" | "done"
    trReq,       \* the transactions posted to /train
    trRes,       \* the handler's return value, or the HTTPException it raised
    wPc,         \* /train, concurrent calls: each worker thread's position
    wReq,        \* each worker thread's transactions
    wOut,        \* what each worker thread's handler is dumping and returning
    wPos,        \* each worker thread's offset in the file it has open
    closed,      \* the worker threads whose dump has finished, in that order
    loaded       \* what a reader's joblib.load of a model file last read

catVars == <<catPc, catReq, catRes>>
fcVars == <<fcPc, fcReq, fcToday, fcRes, fcLocals>>
trVars == <<files, trPc, trReq, trRes, wPc, wReq, wOut, wPos, closed, loaded>>
vars == <<catVars, fcVars, trVars>>

None == [none |-> TRUE]

Workers == {"w1", "w2"}

(***************************************************************************)
(* CATEGORY_KEYWORDS (dict order is insertion order)                       *)
(***************************************************************************)
CATEGORY_KEYWORDS ==
    << [category |-> "Groceries",
        keywords |-> <<"walmart", "kroger", "safeway", "whole foods", "grocery",
                       "supermarket", "food mart">>],
       [category |-> "Dining",
        keywords |-> <<"restaurant", "cafe", "pizza", "mcdonald", "starbucks",
                       "coffee", "burger", "dining">>],
       [category |-> "Transportation",
        keywords |-> <<"uber", "lyft", "gas", "fuel", "parking", "metro", "train",
                       "bus", "transit">>],
       [category |-> "Entertainment",
        keywords |-> <<"movie", "netflix", "spotify", "cinema", "theater", "gaming",
                       "gym", "sports">>],
       [category |-> "Healthcare",
        keywords |-> <<"pharmacy", "hospital", "doctor", "clinic", "medical",
                       "health", "cvs", "walgreens">>],
       [category |-> "Utilities",
        keywords |-> <<"electric", "water", "gas bill", "internet", "phone",
                       "utility", "comcast", "verizon">>],
       [category |-> "Shopping",
        keywords |-> <<"amazon", "target", "mall", "store", "retail", "clothing",
                       "fashion">>],
       [category |-> "Rent/Mortgage",
        keywords |-> <<"rent", "mortgage", "property", "lease">>] >>

(***************************************************************************)
(* str.lower()                                                             *)
(***************************************************************************)
UpperCase == "ABCDEFGHIJKLMNOPQRSTUVWXYZ"
LowerCase == "abcdefghijklmnopqrstuvwxyz"

LowerChar(c) ==
    IF \E i \in 1..Len(UpperCase) : SubSeq(UpperCase, i, i) = c
    THEN LET i == CHOOSE j \in 1..Len(UpperCase) : SubSeq(UpperCase, j, j) = c
         IN  SubSeq(LowerCase, i, i)
    ELSE c

RECURSIVE Lower(_)
Lower(s) ==
    IF Len(s) = 0 THEN ""
    ELSE LowerChar(SubSeq(s, 1, 1)) \o Lower(SubSeq(s, 2, Len(s)))

\* keyword in description_lower
Contains(s, k) ==
    \E i \in 0..(Len(s) - Len(k)) : SubSeq(s, i + 1, i + Len(k)) = k

(***************************************************************************)
(* categorize_transaction                                                  *)
(***************************************************************************)
KeywordResult(category) ==
    [category |-> category, confidence |-> 85, method |-> "keyword_matching"]

\* a fallback that tests for "income" instead of "expense"
DefaultResultByIncome(type) ==
    [category   |-> IF type = "income" THEN "Other Income" ELSE "Shopping",
     confidence |-> 50,
     method     |-> "default"]

DefaultResult(type) ==
    [category   |-> IF type = "expense" THEN "Shopping" ELSE "Other Income",
     confidence |-> 50,
     method     |-> "default"]

\* for keyword in keywords: if keyword in description_lower
RECURSIVE ScanKeywords(_, _, _)
ScanKeywords(description_lower, keywords, k) ==
    IF k > Len(keywords) THEN FALSE
    ELSE IF Contains(description_lower, keywords[k]) THEN TRUE
    ELSE ScanKeywords(description_lower, keywords, k + 1)

\* a scan that keeps going after a hit and so returns the last matching category
RECURSIVE ScanCategoriesLast(_, _, _)
ScanCategoriesLast(description_lower, type, c) ==
    IF c > Len(CATEGORY_KEYWORDS) THEN DefaultResult(type)
    ELSE LET rest == ScanCategoriesLast(description_lower, type, c + 1)
         IN  IF rest.method = "keyword_matching" THEN rest
             ELSE IF ScanKeywords(description_lower, CATEGORY_KEYWORDS[c].keywords, 1)
                  THEN KeywordResult(CATEGORY_KEYWORDS[c].category)
                  ELSE rest

\* for category, keywords in CATEGORY_KEYWORDS.items(): ... ; default fallback
RECURSIVE ScanCategories(_, _, _)
ScanCategories(description_lower, type, c) ==
    IF c > Len(CATEGORY_KEYWORDS) THEN DefaultResult(type)
    ELSE IF ScanKeywords(description_lower, CATEGORY_KEYWORDS[c].keywords, 1)
         THEN KeywordResult(CATEGORY_KEYWORDS[c].category)
         ELSE ScanCategories(description_lower, type, c + 1)

categorize_transaction(transaction) ==
    ScanCategories(Lower(transaction.description), transaction.type, 1)

(***************************************************************************)
(* The transactions posted to /categorize: descriptions of up to MaxWords  *)
(* words of Vocabulary separated by single spaces.                         *)
(***************************************************************************)
MaxWords == 3

Vocabulary ==
    {"Starbucks", "Coffee", "Gas", "bill", "CAFETERIA", "Acme", "Payment"}

TransactionTypes == {"expense", "income", "Expense"}

RECURSIVE Join(_)
Join(ws) ==
    IF Len(ws) = 0 THEN ""
    ELSE IF Len(ws) = 1 THEN ws[1]
    ELSE ws[1] \o " " \o Join(Tail(ws))

Descriptions ==
    { Join(ws) : ws \in UNION { [1..n -> Vocabulary] : n \in 0..MaxWords } }

CatInit ==
    /\ catPc = "idle"
    /\ catReq = None
    /\ catRes = None

\* a client posts a Transaction to /categorize
CatPost ==
    /\ catPc = "idle"
    /\ \E d \in Descriptions, t \in TransactionTypes :
          catReq' = [description |-> d, type |-> t]
    /\ catPc' = "called"
    /\ UNCHANGED <<catRes, fcVars, trVars>>

\* the handler runs and returns
Categorize ==
    /\ catPc = "called"
    /\ catRes' = categorize_transaction(catReq)
    /\ catPc' = "done"
    /\ UNCHANGED <<catReq, fcVars, trVars>>

\* the response is delivered; the service takes the next request
CatReturn ==
    /\ catPc = "done"
    /\ catPc' = "idle"
    /\ catReq' = None
    /\ catRes' = None
    /\ UNCHANGED <<fcVars, trVars>>

CatNext == CatPost \/ Categorize \/ CatReturn

(***************************************************************************)
(* Numbers: exact fractions and NaN                                        *)
(***************************************************************************)
RECURSIVE Gcd(_, _)
Gcd(a, b) == IF b = 0 THEN a ELSE Gcd(b, a % b)

Abs(x) == IF x < 0 THEN -x ELSE x

Frac(n, d) ==
    LET g == Gcd(Abs(n), d)
    IN  [nan |-> FALSE, n |-> n \div g, d |-> d \div g]

NaN == [nan |-> TRUE, n |-> 0, d |-> 1]

Num(k) == Frac(k, 1)

FAdd(a, b) ==
    IF a.nan \/ b.nan THEN NaN ELSE Frac(a.n * b.d + b.n * a.d, a.d * b.d)

FSub(a, b) ==
    IF a.nan \/ b.nan THEN NaN ELSE Frac(a.n * b.d - b.n * a.d, a.d * b.d)

\* a * i / k for integers i and k > 0
FScale(a, i, k) ==
    IF a.nan THEN NaN ELSE Frac(a.n * i, a.d * k)

\* a > 0; False for NaN
FPositive(a) == ~a.nan /\ a.n > 0

\* round(float(a), 2), as a [nan, cents] record; ties go to the even cent
Round2(a) ==
    IF a.nan THEN [nan |-> TRUE, cents |-> 0]
    ELSE LET num == 200 * a.n + a.d
             den == 2 * a.d
             q   == num \div den
         IN  [nan   |-> FALSE,
              cents |-> IF num % den = 0 /\ q % 2 = 1 THEN q - 1 ELSE q]

(***************************************************************************)
(* datetime: proleptic Gregorian ordinals (day 1 is 0001-01-01)            *)
(***************************************************************************)
IsLeap(year) == year % 4 = 0 /\ (year % 100 # 0 \/ year % 400 = 0)

DAYS_IN_MONTH == <<31, 28, 31, 30, 31, 30, 31, 31, 30, 31, 30, 31>>

RECURSIVE DaysBeforeMonthPlain(_)
DaysBeforeMonthPlain(month) ==
    IF month <= 1 THEN 0
    ELSE DaysBeforeMonthPlain(month - 1) + DAYS_IN_MONTH[month - 1]

DaysBeforeYear(year) ==
    LET y == year - 1
    IN  y * 365 + (y \div 4) - (y \div 100) + (y \div 400)

DaysBeforeMonth(year, month) ==
    DaysBeforeMonthPlain(month) + (IF month > 2 /\ IsLeap(year) THEN 1 ELSE 0)

Ymd2Ord(ymd) ==
    DaysBeforeYear(ymd[1]) + DaysBeforeMonth(ymd[1], ymd[2]) + ymd[3]

Ord2Ymd(ordinal) ==
    LET n0   == ordinal - 1
        n400 == n0 \div 146097
        r400 == n0 % 146097
        n100 == r400 \div 36524
        r100 == r400 % 36524
        n4   == r100 \div 1461
        r4   == r100 % 1461
        n1   == r4 \div 365
        n    == r4 % 365
        year == n400 * 400 + 1 + n100 * 100 + n4 * 4 + n1
    IN  IF n1 = 4 \/ n100 = 4 THEN <<year - 1, 12, 31>>
        ELSE LET leapyear == n1 = 3 /\ (n4 # 24 \/ n100 = 3)
                 guess    == (n + 50) \div 32
                 before   == DaysBeforeMonthPlain(guess)
                                + (IF guess > 2 /\ leapyear THEN 1 ELSE 0)
                 month    == IF before > n THEN guess - 1 ELSE guess
                 preceding == IF before > n
                              THEN before - (DAYS_IN_MONTH[month]
                                        + (IF month = 2 /\ leapyear THEN 1 ELSE 0))
                              ELSE before
             IN  <<year, month, n - preceding + 1>>

Digits == "0123456789"

Digit(k) == SubSeq(Digits, k + 1, k + 1)

Pad2(k) == Digit(k \div 10) \o Digit(k % 10)

Pad4(k) == Pad2(k \div 100) \o Pad2(k % 100)

\* strftime("%Y-%m-%d")
Strftime(ymd) == Pad4(ymd[1]) \o "-" \o Pad2(ymd[2]) \o "-" \o Pad2(ymd[3])

\* today + timedelta(days=i)
PlusDays(ymd, i) == Ord2Ymd(Ymd2Ord(ymd) + i)

IsDigit(c) == \E k \in 0..9 : Digit(k) = c

DigitValue(c) == CHOOSE k \in 0..9 : Digit(k) = c

RECURSIVE ParseInt(_)
ParseInt(s) ==
    IF Len(s) = 0 THEN 0
    ELSE 10 * ParseInt(SubSeq(s, 1, Len(s) - 1)) + DigitValue(SubSeq(s, Len(s), Len(s)))

Null == "<null>"

IsIsoDate(s) ==
    /\ Len(s) = 10
    /\ \A i \in {1, 2, 3, 4, 6, 7, 9, 10} : IsDigit(SubSeq(s, i, i))
    /\ SubSeq(s, 5, 5) = "-"
    /\ SubSeq(s, 8, 8) = "-"
    /\ LET y == ParseInt(SubSeq(s, 1, 4))
           m == ParseInt(SubSeq(s, 6, 7))
           d == ParseInt(SubSeq(s, 9, 10))
       IN  /\ y >= 1
           /\ m \in 1..12
           /\ d >= 1
           /\ d <= DAYS_IN_MONTH[m] + (IF m = 2 /\ IsLeap(y) THEN 1 ELSE 0)

NaT == [nat |-> TRUE, ord |-> 0]

\* pd.to_datetime on one cell that is null or an ISO date: its ordinal, or NaT
ToDatetime(s) ==
    IF s = Null THEN NaT
    ELSE [nat |-> FALSE,
          ord |-> Ymd2Ord(<<ParseInt(SubSeq(s, 1, 4)), ParseInt(SubSeq(s, 6, 7)),
                            ParseInt(SubSeq(s, 9, 10))>>)]

(***************************************************************************)
(* pandas: DataFrame, sort_values, groupby().sum(), rolling().mean()       *)
(***************************************************************************)
\* a column exists when some record has the key
HasColumn(transactions, key) ==
    \E i \in 1..Len(transactions) : key \in DOMAIN transactions[i]

\* a cell of a record that lacks the key is null
DateCell(t) == IF "transaction_date" \in DOMAIN t THEN t.transaction_date ELSE Null

\* a missing amount is NaN, which sum() skips
AmountCell(t) == IF "amount" \in DOMAIN t THEN t.amount ELSE 0

Parseable(transactions) ==
    \A i \in 1..Len(transactions) :
        DateCell(transactions[i]) = Null \/ IsIsoDate(DateCell(transactions[i]))

\* df with transaction_date parsed
DataFrame(transactions) ==
    [i \in 1..Len(transactions) |->
        [transaction_date |-> ToDatetime(DateCell(transactions[i])),
         amount           |-> AmountCell(transactions[i])]]

\* NaT sorts last
DateLeq(a, b) == b.nat \/ (~a.nat /\ a.ord <= b.ord)

\* `row` put after the rows of `sorted` that do not come later than it
Insert(row, sorted) ==
    LET p == Cardinality({ j \in 1..Len(sorted) :
                 DateLeq(sorted[j].transaction_date, row.transaction_date) })
    IN  SubSeq(sorted, 1, p) \o <<row>> \o SubSeq(sorted, p + 1, Len(sorted))

RECURSIVE SortPrefix(_, _)
SortPrefix(df, k) ==
    IF k = 0 THEN <<>> ELSE Insert(df[k], SortPrefix(df, k - 1))

\* df.sort_values('transaction_date')
SortValues(df) == SortPrefix(df, Len(df))

\* the groups of the first k rows of a sorted frame
RECURSIVE GroupPrefix(_, _)
GroupPrefix(df, k) ==
    IF k = 0 THEN <<>>
    ELSE LET row  == df[k]
             rest == GroupPrefix(df, k - 1)
         IN  IF row.transaction_date.nat THEN rest
             ELSE IF Len(rest) > 0
                     /\ rest[Len(rest)].transaction_date = row.transaction_date
                  THEN [rest EXCEPT ![Len(rest)].total = @ + row.amount]
                  ELSE Append(rest, [transaction_date |-> row.transaction_date,
                                     total            |-> row.amount])

\* groupby('transaction_date')['amount'].sum() of a sorted frame: one total per
\* date in date order; rows whose date is NaT belong to no group
GroupSum(df) == GroupPrefix(df, Len(df))

RECURSIVE SumTotals(_, _, _)
SumTotals(series, from, to) ==
    IF from > to THEN 0 ELSE series[to].total + SumTotals(series, from, to - 1)

\* Series.mean(): NaN for an empty series
Mean(series) ==
    IF Len(series) = 0 THEN NaN
    ELSE Frac(SumTotals(series, 1, Len(series)), Len(series))

\* Series.rolling(window).mean(): NaN until `window` observations exist
Rolling(series, window) ==
    [k \in 1..Len(series) |->
        IF k < window THEN NaN
        ELSE Frac(SumTotals(series, k - window + 1, k), window)]

(***************************************************************************)
(* forecast_expenses                                                       *)
(***************************************************************************)
InsufficientData ==
    [error   |-> "Insufficient data",
     message |-> "Need at least 30 transactions for accurate forecasting"]

HTTPException(detail) == [status_code |-> 500, detail |-> detail]

\* "increasing" if trend > 0 else "decreasing", with >= for >
TrendLabelNonNegative(trend) ==
    IF ~trend.nan /\ trend.n >= 0 THEN "increasing" ELSE "decreasing"

TrendLabel(trend) == IF FPositive(trend) THEN "increasing" ELSE "decreasing"

\* predictions whose first date is today itself
PredictionsFromToday(today, avg_daily, trend) ==
    [i \in 1..30 |->
        [date             |-> Strftime(PlusDays(today, i - 1)),
         predicted_amount |-> Round2(FAdd(avg_daily, FScale(trend, i, 30))),
         confidence       |-> "medium"]]

\* for i in range(1, 31): ...
Predictions(today, avg_daily, trend) ==
    [i \in 1..30 |->
        [date             |-> Strftime(PlusDays(today, i)),
         predicted_amount |-> Round2(FAdd(avg_daily, FScale(trend, i, 30))),
         confidence       |-> "medium"]]

\* sum(p['predicted_amount'] for p in predictions), over the first k of them
RECURSIVE SumPredicted(_, _)
SumPredicted(ps, k) ==
    IF k = 0 THEN [nan |-> FALSE, cents |-> 0]
    ELSE IF ps[k].predicted_amount.nan THEN [nan |-> TRUE, cents |-> 0]
    ELSE LET rest == SumPredicted(ps, k - 1)
         IN  IF rest.nan THEN rest
             ELSE [nan   |-> FALSE,
                   cents |-> rest.cents + ps[k].predicted_amount.cents]

MinTransactions == 30

\* a length test that lets a request of 29 transactions through
TooFewOffByOne(transactions) == Len(transactions) < MinTransactions - 1

\* len(request.transactions) < 30
TooFew(transactions) == Len(transactions) < MinTransactions

\* the difference taken the other way round
TrendSwapped(ma_7, ma_30) ==
    IF Len(ma_7) > 0 THEN FSub(ma_30[Len(ma_30)], ma_7[Len(ma_7)]) ELSE Num(0)

\* trend = (ma_7.iloc[-1] - ma_30.iloc[-1]) if len(ma_7) > 0 else 0
Trend(ma_7, ma_30) ==
    IF Len(ma_7) > 0 THEN FSub(ma_7[Len(ma_7)], ma_30[Len(ma_30)]) ELSE Num(0)

\* the locals at the end of the happy path
ForecastLocals(transactions) ==
    LET df             == SortValues(DataFrame(transactions))
        daily_spending == GroupSum(df)
        ma_7           == Rolling(daily_spending, 7)
        ma_30          == Rolling(daily_spending, 30)
    IN  [daily_spending |-> daily_spending,
         ma_7_last      |-> IF Len(ma_7) > 0 THEN ma_7[Len(ma_7)] ELSE NaN,
         ma_30_last     |-> IF Len(ma_30) > 0 THEN ma_30[Len(ma_30)] ELSE NaN,
         avg_daily      |-> Mean(daily_spending),
         trend          |-> Trend(ma_7, ma_30)]

NoLocals == [skipped |-> TRUE]

\* the handler: its return value (or the HTTPException it raises) and its locals
forecast_expenses(request, today) ==
    IF TooFew(request.transactions)
    THEN [res |-> InsufficientData, locals |-> NoLocals]
    ELSE IF ~HasColumn(request.transactions, "transaction_date")
    THEN [res |-> HTTPException("Forecast error: 'transaction_date'"),
          locals |-> NoLocals]
    ELSE IF ~Parseable(request.transactions)
    THEN [res |-> HTTPException("Forecast error: unknown datetime string format"),
          locals |-> NoLocals]
    ELSE IF ~HasColumn(request.transactions, "amount")
    THEN [res |-> HTTPException("Forecast error: 'Column not found: amount'"),
          locals |-> NoLocals]
    ELSE LET l           == ForecastLocals(request.transactions)
             predictions == Predictions(today, l.avg_daily, l.trend)
         IN  [res |->
                 [forecast_period         |-> "30_days",
                  total_predicted_expense |-> SumPredicted(predictions, 30),
                  daily_predictions       |-> predictions,
                  avg_daily_expense       |-> Round2(l.avg_daily),
                  trend                   |-> TrendLabel(l.trend)],
              locals |-> l]

(***************************************************************************)
(* The requests posted to /forecast.  A history of n transactions over     *)
(* `days` dates, newest first and cycling, with a gap after the fifth      *)
(* date; its amounts follow a shape; a defect spoils the records.          *)
(***************************************************************************)
MaxTx == 31

Shapes == {"flat", "rising", "falling"}

Defects == {"none", "no_date_column", "null_dates", "one_null_date", "bad_date",
            "no_amount_column"}

Todays == { <<2023, 12, 20>>, <<2024, 2, 15>>, <<2025, 2, 10>> }

HistoryDate(k) ==
    Strftime(Ord2Ymd(Ymd2Ord(<<2024, 1, 25>>) + k + (IF k >= 5 THEN 3 ELSE 0)))

HistoryAmount(shape, k) ==
    CASE shape = "flat"    -> 20
      [] shape = "rising"  -> 10 + k
      [] shape = "falling" -> 50 - k

HistoryRecord(shape, defect, i, k) ==
    CASE defect = "none" ->
            [transaction_date |-> HistoryDate(k), amount |-> HistoryAmount(shape, k)]
      [] defect = "no_date_column" ->
            [amount |-> HistoryAmount(shape, k)]
      [] defect = "null_dates" ->
            [transaction_date |-> Null, amount |-> HistoryAmount(shape, k)]
      [] defect = "one_null_date" ->
            [transaction_date |-> IF i = 1 THEN Null ELSE HistoryDate(k),
             amount |-> HistoryAmount(shape, k)]
      [] defect = "bad_date" ->
            [transaction_date |-> IF i = 1 THEN "yesterday" ELSE HistoryDate(k),
             amount |-> HistoryAmount(shape, k)]
      [] defect = "no_amount_column" ->
            [transaction_date |-> HistoryDate(k)]

History(n, days, shape, defect) ==
    [i \in 1..n |-> HistoryRecord(shape, defect, i, (n - i) % days)]

FcInit ==
    /\ fcPc = "idle"
    /\ fcReq = None
    /\ fcToday = None
    /\ fcRes = None
    /\ fcLocals = None

\* a client posts a ForecastRequest
FcPost ==
    /\ fcPc = "idle"
    /\ \E n \in 0..MaxTx, shape \in Shapes, defect \in Defects :
          \E days \in 1..(IF n = 0 THEN 1 ELSE n) :
             /\ (shape = "flat" \/ defect = "none")
             /\ fcReq' = [user_id |-> 1,
                          transactions |-> History(n, days, shape, defect)]
    /\ fcPc' = "called"
    /\ UNCHANGED <<fcToday, fcRes, fcLocals, catVars, trVars>>

\* the handler runs, reading the clock, and returns or raises
Forecast ==
    /\ fcPc = "called"
    /\ \E today \in Todays :
          LET out == forecast_expenses(fcReq, today)
          IN  /\ fcToday' = today
              /\ fcRes' = out.res
              /\ fcLocals' = out.locals
    /\ fcPc' = "done"
    /\ UNCHANGED <<fcReq, catVars, trVars>>

\* the response is delivered
FcReturn ==
    /\ fcPc = "done"
    /\ fcPc' = "idle"
    /\ fcReq' = None
    /\ fcToday' = None
    /\ fcRes' = None
    /\ fcLocals' = None
    /\ UNCHANGED <<catVars, trVars>>

FcNext == FcPost \/ Forecast \/ FcReturn

(***************************************************************************)
(* train_categorization_model                                              *)
(***************************************************************************)
MODELS_DIR == "models"

\* f"{MODELS_DIR}/categorizer_{user_id}.pkl", for user ids below 100
ModelPath(user_id) ==
    MODELS_DIR \o "/categorizer_"
        \o (IF user_id >= 10 THEN Digit(user_id \div 10) ELSE "")
        \o Digit(user_id % 10) \o ".pkl"

\* pd.to_datetime(...).dt.dayofweek: Monday is 0
DayOfWeek(date) == (date.ord + 6) % 7

\* X = df[['amount_log', 'day_of_week']].values; log1p stays symbolic
Features(transactions) ==
    [i \in 1..Len(transactions) |->
        [amount_log  |-> [log1p |-> transactions[i].amount],
         day_of_week |-> DayOfWeek(ToDatetime(transactions[i].transaction_date))]]

\* y = df['category_id'].values
Labels(transactions) ==
    [i \in 1..Len(transactions) |-> transactions[i].category_id]

\* RandomForestClassifier(n_estimators=100, random_state=42).fit(X, y): with the
\* seed fixed the forest is determined by the training data
Fit(X, y) == [n_estimators |-> 100, random_state |-> 42, X |-> X, y |-> y]

\* the pickle stream of a model, in the pieces the file receives it
Serialize(model) ==
    << [part |-> 1, n_estimators |-> model.n_estimators,
        random_state |-> model.random_state, X |-> model.X],
       [part |-> 2, y |-> model.y] >>

NoFile == [exists |-> FALSE, bytes |-> <<>>]

\* joblib.load of a complete stream
Deserialize(bytes) ==
    [n_estimators |-> bytes[1].n_estimators, random_state |-> bytes[1].random_state,
     X |-> bytes[1].X, y |-> bytes[2].y]

MinTrainingSamples == 50

\* a threshold test that also turns away a batch of exactly 50
TrainTooFewInclusive(transactions) == Len(transactions) <= MinTrainingSamples

\* len(df) < 50
TrainTooFew(transactions) == Len(transactions) < MinTrainingSamples

\* the key taken from the last transaction of the batch
ModelKeyOfLast(transactions) == transactions[Len(transactions)].user_id

\* transactions[0]['user_id']
ModelKey(transactions) == transactions[1].user_id

MissingColumn(transactions) ==
    IF ~HasColumn(transactions, "description") THEN "description"
    ELSE IF ~HasColumn(transactions, "amount") THEN "amount"
    ELSE IF ~HasColumn(transactions, "transaction_date") THEN "transaction_date"
    ELSE IF ~HasColumn(transactions, "category_id") THEN "category_id"
    ELSE ""

\* the handler up to joblib.dump: what it will return or raise, and the model
\* and path it will dump when it gets that far
train_categorization_model(transactions) ==
    IF TrainTooFew(transactions)
    THEN [dumps |-> FALSE,
          res   |-> [message |-> "Need at least 50 labeled transactions to train"]]
    ELSE IF MissingColumn(transactions) # ""
    THEN [dumps |-> FALSE,
          res   |-> HTTPException("Training error: '"
                                     \o MissingColumn(transactions) \o "'")]
    ELSE IF ~Parseable(transactions)
    THEN [dumps |-> FALSE,
          res   |-> HTTPException("Training error: unknown datetime string format")]
    ELSE IF "user_id" \notin DOMAIN transactions[1]
    THEN [dumps |-> FALSE, res |-> HTTPException("Training error: 'user_id'")]
    ELSE [dumps |-> TRUE,
          path  |-> ModelPath(ModelKey(transactions)),
          model |-> Fit(Features(transactions), Labels(transactions)),
          res   |-> [message      |-> "Model trained successfully",
                     accuracy     |-> "~85%",
                     samples_used |-> Len(transactions)]]

(***************************************************************************)
(* The batches posted to /train: n transactions, the first of user `first` *)
(* and the others of user `others`; the variant changes amounts, dates and *)
(* labels; a defect spoils the records.                                    *)
(***************************************************************************)
MaxBatch == 51

Users == {1, 2}

Variants == {1, 2}

TrainDefects == {"none", "no_user_id", "no_category_column"}

Paths == { ModelPath(u) : u \in Users }

BatchRecord(first, others, variant, defect, i) ==
    LET base == [description      |-> "Purchase",
                 amount           |-> 10 * variant + (i % 3),
                 transaction_date |-> HistoryDate((i + variant) % 7)]
        uid  == IF i = 1 THEN first ELSE others
    IN  CASE defect = "none" ->
                base @@ [category_id |-> 1 + ((i + variant) % 3), user_id |-> uid]
          [] defect = "no_user_id" ->
                base @@ [category_id |-> 1 + ((i + variant) % 3)]
          [] defect = "no_category_column" ->
                base @@ [user_id |-> uid]

Batch(n, first, others, variant, defect) ==
    [i \in 1..n |-> BatchRecord(first, others, variant, defect, i)]

TrInit ==
    /\ files = [p \in Paths |-> NoFile]
    /\ trPc = "idle"
    /\ trReq = None
    /\ trRes = None
    /\ wPc = [w \in Workers |-> "idle"]
    /\ wReq = [w \in Workers |-> None]
    /\ wOut = [w \in Workers |-> None]
    /\ wPos = [w \in Workers |-> 0]
    /\ closed = [p \in Paths |-> None]
    /\ loaded = [read |-> FALSE, bytes |-> <<>>]

concVars == <<wPc, wReq, wOut, wPos, closed, loaded>>

\* a client posts a batch to /train
TrPost ==
    /\ trPc = "idle"
    /\ \E n \in 0..MaxBatch, first \in Users, others \in Users,
          variant \in Variants, defect \in TrainDefects :
          /\ defect = "none" \/ (variant = 1 /\ first = others)
          /\ trReq' = Batch(n, first, others, variant, defect)
    /\ trPc' = "called"
    /\ UNCHANGED <<files, trRes, concVars, catVars, fcVars>>

\* the handler runs alone from entry to return: joblib.dump creates or
\* replaces the whole file
Train ==
    /\ trPc = "called"
    /\ LET out == train_categorization_model(trReq)
       IN  /\ files' = IF out.dumps
                       THEN [files EXCEPT ![out.path] =
                                [exists |-> TRUE, bytes |-> Serialize(out.model)]]
                       ELSE files
           /\ trRes' = out.res
    /\ trPc' = "done"
    /\ UNCHANGED <<trReq, concVars, catVars, fcVars>>

\* the response is delivered
TrReturn ==
    /\ trPc = "done"
    /\ trPc' = "idle"
    /\ trReq' = None
    /\ trRes' = None
    /\ UNCHANGED <<files, concVars, catVars, fcVars>>

TrNext == TrPost \/ Train \/ TrReturn

(***************************************************************************)
(* /train under the server's thread pool: the handler is a plain `def`, so *)
(* each call runs on a worker thread and calls overlap.  joblib.dump opens *)
(* the path with open(path, 'wb'), which truncates the file, and the       *)
(* pickler then writes the stream piece by piece at the thread's own file  *)
(* offset.  A reader loads a model file with joblib.load.                  *)
(***************************************************************************)
Zeros == [part |-> 0]

\* pwrite: `piece` at offset `pos` (counted in pieces), zero-filling a gap
WriteAt(bytes, pos, piece) ==
    [k \in 1..(IF Len(bytes) > pos + 1 THEN Len(bytes) ELSE pos + 1) |->
        IF k = pos + 1 THEN piece
        ELSE IF k <= Len(bytes) THEN bytes[k]
        ELSE Zeros]

\* the user whose clients retrain at the same time
SharedUser == CHOOSE u \in Users : TRUE

\* a client of SharedUser posts a batch to /train; a free worker thread takes
\* the call (the two threads serve clients with different histories)
WPost(w) ==
    /\ wPc[w] = "idle"
    /\ \E n \in {MinTrainingSamples - 1, MinTrainingSamples} :
          wReq' = [wReq EXCEPT ![w] =
                      Batch(n, SharedUser, SharedUser, IF w = "w1" THEN 1 ELSE 2,
                            "none")]
    /\ wPc' = [wPc EXCEPT ![w] = "called"]
    /\ UNCHANGED <<files, wOut, wPos, closed, loaded, trPc, trReq, trRes,
                   catVars, fcVars>>

\* the handler up to joblib.dump; it returns or raises here when it dumps nothing
WFit(w) ==
    /\ wPc[w] = "called"
    /\ LET out == train_categorization_model(wReq[w])
       IN  /\ wOut' = [wOut EXCEPT ![w] = out]
           /\ wPc' = [wPc EXCEPT ![w] = IF out.dumps THEN "fitted" ELSE "done"]
    /\ UNCHANGED <<files, wReq, wPos, closed, loaded, trPc, trReq, trRes,
                   catVars, fcVars>>

\* joblib.dump: open(model_path, 'wb')
WOpen(w) ==
    /\ wPc[w] = "fitted"
    /\ files' = [files EXCEPT ![wOut[w].path] = [exists |-> TRUE, bytes |-> <<>>]]
    /\ wPos' = [wPos EXCEPT ![w] = 0]
    /\ wPc' = [wPc EXCEPT ![w] = "writing"]
    /\ UNCHANGED <<wReq, wOut, closed, loaded, trPc, trReq, trRes, catVars, fcVars>>

\* joblib.dump: the next piece of the pickle stream reaches the file
WWrite(w) ==
    /\ wPc[w] = "writing"
    /\ wPos[w] < Len(Serialize(wOut[w].model))
    /\ files' = [files EXCEPT ![wOut[w].path].bytes =
                    WriteAt(@, wPos[w], Serialize(wOut[w].model)[wPos[w] + 1])]
    /\ wPos' = [wPos EXCEPT ![w] = @ + 1]
    /\ UNCHANGED <<wPc, wReq, wOut, closed, loaded, trPc, trReq, trRes,
                   catVars, fcVars>>

\* joblib.dump: the file is closed; the handler returns its confirmation
WClose(w) ==
    /\ wPc[w] = "writing"
    /\ wPos[w] = Len(Serialize(wOut[w].model))
    /\ closed' = [closed EXCEPT ![wOut[w].path] = wOut[w].model]
    /\ wPc' = [wPc EXCEPT ![w] = "done"]
    /\ UNCHANGED <<files, wReq, wOut, wPos, loaded, trPc, trReq, trRes,
                   catVars, fcVars>>

\* the response is delivered; the thread goes back to the pool
WReturn(w) ==
    /\ wPc[w] = "done"
    /\ wPc' = [wPc EXCEPT ![w] = "idle"]
    /\ wReq' = [wReq EXCEPT ![w] = None]
    /\ wOut' = [wOut EXCEPT ![w] = None]
    /\ wPos' = [wPos EXCEPT ![w] = 0]
    /\ UNCHANGED <<files, closed, loaded, trPc, trReq, trRes, catVars, fcVars>>

\* a reader reads the model file of a user
Load(p) ==
    /\ files[p].exists
    /\ loaded' = [read |-> TRUE, bytes |-> files[p].bytes]
    /\ UNCHANGED <<files, wPc, wReq, wOut, wPos, closed, trPc, trReq, trRes,
                   catVars, fcVars>>

ConcNext ==
    \/ \E w \in Workers : WPost(w)
    \/ \E w \in Workers : WFit(w)
    \/ \E w \in Workers : WOpen(w)
    \/ \E w \in Workers : WWrite(w)
    \/ \E w \in Workers : WClose(w)
    \/ \E w \in Workers : WReturn(w)
    \/ \E p \in Paths : Load(p)

(***************************************************************************)
(* Specifications: one per endpoint                                        *)
(***************************************************************************)
Init == CatInit /\ FcInit /\ TrInit

SpecCategorize == Init /\ [][CatNext]_vars

SpecForecast == Init /\ [][FcNext]_vars

SpecTrain == Init /\ [][TrNext]_vars

SpecStore == Init /\ [][ConcNext]_vars

(***************************************************************************)
(* Claims about categorize_transaction                                     *)
(***************************************************************************)
\* The (category, keyword) rules in table order.
Rules ==
    UNION { { <<c, k>> : k \in 1..Len(CATEGORY_KEYWORDS[c].keywords) } :
            c \in 1..Len(CATEGORY_KEYWORDS) }
Before(r, s) == r[1] < s[1] \/ (r[1] = s[1] /\ r[2] < s[2])
MatchingLower(dl) ==
    { r \in Rules : Contains(dl, CATEGORY_KEYWORDS[r[1]].keywords[r[2]]) }
Matching(d) == MatchingLower(Lower(d))
FirstMatching(d) ==
    CHOOSE r \in Matching(d) : \A s \in Matching(d) : s = r \/ Before(r, s)

FirstRuleWins ==
    (catPc = "done" /\ Matching(catReq.description) # {}) =>
        /\ catRes.category =
               CATEGORY_KEYWORDS[FirstMatching(catReq.description)[1]].category
        /\ catRes.confidence = 85
        /\ catRes.method = "keyword_matching"

\* C1 as stated: a description whose lowercased text contains a configured
\* keyword gets the category owning the first matching rule in table order,
\* confidence 0.85 and method "keyword_matching"; a description containing
\* "gas bill" gets Transportation, not Utilities.
C1_GasBillIsTransportation ==
    /\ FirstRuleWins
    /\ (catPc = "done" /\ Contains(Lower(catReq.description), "gas bill")) =>
           catRes.category = "Transportation"

\* C1 amended: a description whose lowercased text contains a configured
\* keyword gets the category owning the first matching rule in table order,
\* confidence 0.85 and method "keyword_matching"; a description containing
\* "gas bill" never gets Utilities: it gets Transportation unless a Groceries
\* or Dining keyword also occurs in it, and then that earlier category.
C1_FirstRuleWins ==
    /\ FirstRuleWins
    /\ (catPc = "done" /\ Contains(Lower(catReq.description), "gas bill")) =>
           /\ catRes.category # "Utilities"
           /\ catRes.category \in {"Groceries", "Dining", "Transportation"}
           /\ (\A r \in Matching(catReq.description) : r[1] >= 3) =>
                  catRes.category = "Transportation"

C1_Witness ==
    /\ catPc = "done"
    /\ catReq.description = "Acme Gas bill"
    /\ catRes.category = "Transportation"
    /\ catRes.method = "keyword_matching"

\* C2: a description containing no configured keyword gets method "default",
\* confidence 0.50 and category "Shopping" exactly when type is "expense"
\* ("Other Income" otherwise); every call returns a result.
C2_DefaultFallback ==
    catPc = "done" =>
        /\ catRes # None
        /\ catRes.method \in {"keyword_matching", "default"}
        /\ Matching(catReq.description) = {} =>
              /\ catRes.method = "default"
              /\ catRes.confidence = 50
              /\ (catRes.category = "Shopping") <=> (catReq.type = "expense")
              /\ catReq.type # "expense" => catRes.category = "Other Income"

C2_Witness ==
    /\ catPc = "done"
    /\ catReq.description = "Acme Payment"
    /\ catReq.type = "Expense"
    /\ catRes.category = "Other Income"

(***************************************************************************)
(* Claims about forecast_expenses                                          *)
(***************************************************************************)
IsForecast(res) == "daily_predictions" \in DOMAIN res

\* the calendar dates a request's transactions fall on
DistinctDates(request) ==
    { DateCell(request.transactions[i]) : i \in 1..Len(request.transactions) }
        \ {Null}

\* C3: fewer than 30 transactions, well-formed or not, give the
\* insufficient-data shape {error: "Insufficient data", message} and neither a
\* forecast nor an internal error; 30 or more never give that shape.
C3_InsufficientBelow30 ==
    fcPc = "done" =>
        /\ Len(fcReq.transactions) < 30 =>
              /\ DOMAIN fcRes = {"error", "message"}
              /\ fcRes.error = "Insufficient data"
        /\ Len(fcReq.transactions) >= 30 => "error" \notin DOMAIN fcRes

C3_Witness ==
    /\ fcPc = "done"
    /\ Len(fcReq.transactions) = 29
    /\ "transaction_date" \notin DOMAIN fcReq.transactions[1]
    /\ fcRes.error = "Insufficient data"

\* C4: a history of at least 30 transactions on fewer than 7 distinct calendar
\* days has trend 0, so each of its 30 predicted amounts equals avg_daily.
C4_FewDaysTrendZero ==
    (/\ fcPc = "done"
     /\ IsForecast(fcRes)
     /\ Cardinality(DistinctDates(fcReq)) \in 1..6) =>
        /\ fcLocals.trend = Num(0)
        /\ \A i \in 1..Len(fcRes.daily_predictions) :
              fcRes.daily_predictions[i].predicted_amount = fcRes.avg_daily_expense

ParseYmd(s) ==
    <<ParseInt(SubSeq(s, 1, 4)), ParseInt(SubSeq(s, 6, 7)), ParseInt(SubSeq(s, 9, 10))>>

\* the calendar day after <<year, month, day>>
CalendarTomorrow(ymd) ==
    LET leap == ymd[1] % 4 = 0 /\ (ymd[1] % 100 # 0 \/ ymd[1] % 400 = 0)
        last == IF ymd[2] = 2 THEN (IF leap THEN 29 ELSE 28)
                ELSE IF ymd[2] \in {4, 6, 9, 11} THEN 30 ELSE 31
    IN  IF ymd[3] < last THEN <<ymd[1], ymd[2], ymd[3] + 1>>
        ELSE IF ymd[2] < 12 THEN <<ymd[1], ymd[2] + 1, 1>>
        ELSE <<ymd[1] + 1, 1, 1>>

\* C5: a forecast has exactly 30 daily_predictions, each with confidence
\* "medium"; the first is dated the day after the anchor date and each later
\* one the calendar day after its predecessor (so the last is anchor + 30).
C5_ThirtyConsecutiveDays ==
    (fcPc = "done" /\ IsForecast(fcRes)) =>
        /\ Len(fcRes.daily_predictions) = 30
        /\ \A i \in 1..Len(fcRes.daily_predictions) :
              /\ fcRes.daily_predictions[i].confidence = "medium"
              /\ IsIsoDate(fcRes.daily_predictions[i].date)
              /\ ParseYmd(fcRes.daily_predictions[i].date) =
                    CalendarTomorrow(IF i = 1 THEN fcToday
                                     ELSE ParseYmd(fcRes.daily_predictions[i - 1].date))

C5_Witness ==
    /\ fcPc = "done"
    /\ IsForecast(fcRes)
    /\ fcToday = <<2024, 2, 15>>
    /\ fcRes.daily_predictions[1].date = "2024-02-16"
    /\ fcRes.daily_predictions[30].date = "2024-03-16"

Exactly30Distinct(request) ==
    /\ Len(request.transactions) = 30
    /\ \A i \in 1..30 : /\ DOMAIN request.transactions[i] =
                              {"transaction_date", "amount"}
                        /\ IsIsoDate(request.transactions[i].transaction_date)
    /\ Cardinality(DistinctDates(request)) = 30

\* the amounts of the first k transactions that fall on one of the `latest`
\* latest dates of the request, summed
RECURSIVE SumLatest(_, _, _)
SumLatest(request, latest, k) ==
    IF k = 0 THEN 0
    ELSE LET t     == request.transactions[k]
             later == { d \in DistinctDates(request) :
                          ToDatetime(d).ord > ToDatetime(t.transaction_date).ord }
         IN  (IF Cardinality(later) < latest THEN t.amount ELSE 0)
                + SumLatest(request, latest, k - 1)

\* C9 as stated: exactly 30 transactions on 30 distinct dates give a forecast
\* with both moving averages and avg_daily defined and a trend of 0.
C9_ThirtyDaysTrendZero ==
    (fcPc = "done" /\ Exactly30Distinct(fcReq)) =>
        /\ IsForecast(fcRes)
        /\ ~fcLocals.ma_7_last.nan
        /\ ~fcLocals.ma_30_last.nan
        /\ ~fcLocals.avg_daily.nan
        /\ fcLocals.trend = Num(0)

\* C9 amended: exactly 30 transactions on 30 distinct dates give a forecast
\* with both moving averages and avg_daily defined at the last position, and a
\* trend equal to the mean of the 7 latest daily totals minus the mean of all
\* 30 (which is 0 exactly when those two means are equal).
C9_ThirtyDaysTrendIsDifference ==
    (fcPc = "done" /\ Exactly30Distinct(fcReq)) =>
        LET s7  == SumLatest(fcReq, 7, 30)
            s30 == SumLatest(fcReq, 30, 30)
        IN  /\ IsForecast(fcRes)
            /\ ~fcLocals.ma_7_last.nan
            /\ fcLocals.ma_7_last.n * 7 = s7 * fcLocals.ma_7_last.d
            /\ ~fcLocals.ma_30_last.nan
            /\ fcLocals.ma_30_last.n * 30 = s30 * fcLocals.ma_30_last.d
            /\ ~fcLocals.avg_daily.nan
            /\ fcLocals.avg_daily.n * 30 = s30 * fcLocals.avg_daily.d
            /\ ~fcLocals.trend.nan
            /\ fcLocals.trend.n * 210 = (30 * s7 - 7 * s30) * fcLocals.trend.d
            /\ (fcLocals.trend.n = 0) <=> (30 * s7 = 7 * s30)

C9_Witness ==
    /\ fcPc = "done"
    /\ Exactly30Distinct(fcReq)
    /\ IsForecast(fcRes)
    /\ fcLocals.trend.n > 0
    /\ fcRes.trend = "increasing"

\* C10: the reported direction is "increasing" exactly when the computed trend
\* is strictly greater than 0 and "decreasing" in every other case, a trend of
\* exactly 0 included; no other label is emitted.
C10_TrendDirection ==
    (fcPc = "done" /\ IsForecast(fcRes)) =>
        /\ fcRes.trend \in {"increasing", "decreasing"}
        /\ (fcRes.trend = "increasing") <=>
              (~fcLocals.trend.nan /\ fcLocals.trend.n > 0)

C10_Witness ==
    /\ fcPc = "done"
    /\ IsForecast(fcRes)
    /\ ~fcLocals.trend.nan
    /\ fcLocals.trend.n = 0
    /\ fcRes.trend = "decreasing"

(***************************************************************************)
(* Claims about train_categorization_model and the model store             *)
(***************************************************************************)
TrainRuns == trPc = "called" /\ trPc' = "done"

PathOfUser(user_id) ==
    IF user_id = 1 THEN "models/categorizer_1.pkl" ELSE "models/categorizer_2.pkl"

WellFormedBatch(transactions) ==
    \A i \in 1..Len(transactions) :
        {"description", "amount", "transaction_date", "category_id", "user_id"}
            \subseteq DOMAIN transactions[i]

\* the file holds the complete artifact trained on `transactions`
HoldsArtifactOf(file, transactions) ==
    /\ file.exists
    /\ Len(file.bytes) = 2
    /\ file.bytes[1].part = 1
    /\ file.bytes[1].n_estimators = 100
    /\ file.bytes[1].random_state = 42
    /\ Len(file.bytes[1].X) = Len(transactions)
    /\ file.bytes[2].part = 2
    /\ file.bytes[2].y = [i \in 1..Len(transactions) |-> transactions[i].category_id]

\* C6: a call with fewer than 50 transactions returns the
\* insufficient-training-data message and leaves the model store unchanged; a
\* call with 50 or more well-formed labeled transactions persists an artifact
\* retrievable under the user's key and reports samples_used = the batch size.
C6_ThresholdAndPersist ==
    [][TrainRuns =>
        /\ Len(trReq) < 50 =>
              /\ trRes' = [message |-> "Need at least 50 labeled transactions to train"]
              /\ files' = files
        /\ (Len(trReq) >= 50 /\ WellFormedBatch(trReq)) =>
              /\ HoldsArtifactOf(files'[PathOfUser(trReq[1].user_id)], trReq)
              /\ Deserialize(files'[PathOfUser(trReq[1].user_id)].bytes).y
                    = [i \in 1..Len(trReq) |-> trReq[i].category_id]
              /\ trRes'.samples_used = Len(trReq)]_vars

C6_Witness ==
    /\ trPc = "done"
    /\ Len(trReq) = 49
    /\ trReq[1].user_id = 1
    /\ "message" \in DOMAIN trRes
    /\ "samples_used" \notin DOMAIN trRes
    /\ files[PathOfUser(1)].exists

\* C8: a successful call writes exactly one artifact, under the key of the
\* first transaction's user_id whatever the later transactions carry; it
\* replaces what that key held and leaves every other key as it was; a call
\* that does not succeed leaves every key as it was.
C8_KeyedByFirstUser ==
    [][TrainRuns =>
        IF "samples_used" \in DOMAIN trRes'
        THEN /\ HoldsArtifactOf(files'[PathOfUser(trReq[1].user_id)], trReq)
             /\ \A p \in DOMAIN files :
                   p # PathOfUser(trReq[1].user_id) => files'[p] = files[p]
        ELSE files' = files]_vars

C8_Witness ==
    /\ trPc = "done"
    /\ "samples_used" \in DOMAIN trRes
    /\ trReq[1].user_id = 1
    /\ trReq[2].user_id = 2
    /\ HoldsArtifactOf(files[PathOfUser(1)], trReq)
    /\ files[PathOfUser(2)].exists
    /\ ~HoldsArtifactOf(files[PathOfUser(2)], trReq)

\* the artifacts the concurrent calls can train
TrainedModels ==
    { train_categorization_model(
          Batch(MinTrainingSamples, SharedUser, SharedUser, v, "none")).model :
        v \in Variants }

\* C7: with training calls for one user interleaving with each other and with
\* readers, a reader always reads a complete artifact, and once no call is in
\* progress the store holds exactly the artifact of the call that finished last.
C7_AtomicLastWriterWins ==
    /\ loaded.read => \E m \in TrainedModels : loaded.bytes = Serialize(m)
    /\ \A p \in Paths :
          (/\ closed[p] # None
           /\ \A w \in Workers : wPc[w] \in {"idle", "done"}) =>
              files[p] = [exists |-> TRUE, bytes |-> Serialize(closed[p])]

====
